---- MODULE Spec2Model ----
(***************************************************************************)
(* A model of inventory_system.py: the module-level dictionary stock_data  *)
(* and the functions that read and write it (add_item, remove_item,        *)
(* get_qty, check_low_items, load_data, save_data), together with the one  *)
(* file the functions persist to.                                          *)
(*                                                                         *)
(* Every step is one call of one function with arguments drawn from small  *)
(* sets.  The module records the call (call), the dictionary before it     *)
(* (pre), the exception that left the function if any (raised), the value  *)
(* returned (ret) and the caller's log list after the call (logs).         *)
(***************************************************************************)
EXTENDS Integers, Sequences, FiniteSets, TLC

\* Stock quantities are kept within -MaxDebt .. MaxQty.
MaxQty == 2
MaxDebt == 1

\* check_low_items(threshold=5)
DefaultThreshold == 5

\* load_data / save_data (file_path="inventory.json")
DefaultPath == "inventory.json"
\* A path whose directory does not exist: open() fails for reading and writing.
NoDirPath == "no_such_dir/inventory.json"
Paths == {DefaultPath, NoDirPath}

(***************************************************************************)
(* Python values passed as arguments.  Every value is a record of the same *)
(* shape: its type, and its content as a string or as an integer.          *)
(***************************************************************************)
PyStr(s) == [t |-> "str", s |-> s, n |-> 0]
PyInt(n) == [t |-> "int", s |-> "", n |-> n]
PyList == [t |-> "list", s |-> "", n |-> 0]
PyNone == [t |-> "NoneType", s |-> "", n |-> 0]

isinstance_str(v) == v.t = "str"
isinstance_int(v) == v.t = "int"
\* A list is unhashable: using it as a dictionary key raises TypeError.
hashable(v) == v.t # "list"

(***************************************************************************)
(* A dict is a sequence of entries [k, v] in insertion order, no key       *)
(* twice.  Keys are str (add_item checks it, JSON object keys are str) and *)
(* the quantities the model stores are int.                                *)
(***************************************************************************)
Keys(d) == {d[i].k : i \in DOMAIN d}
Entries(d) == {d[i] : i \in DOMAIN d}
Lookup(d, k) == (CHOOSE e \in Entries(d) : e.k = k).v
\* key in d, for a key that is any hashable Python value
Contains(d, key) == isinstance_str(key) /\ key.s \in Keys(d)
\* d.get(k, default)
DictGet(d, k, default) == IF k \in Keys(d) THEN Lookup(d, k) ELSE default
\* d[k] = v : an existing key keeps its place, a new key goes last
DictSet(d, k, v) ==
    IF k \in Keys(d)
    THEN [i \in DOMAIN d |-> IF d[i].k = k THEN [k |-> k, v |-> v] ELSE d[i]]
    ELSE Append(d, [k |-> k, v |-> v])
\* del d[k]
DictDel(d, k) == SelectSeq(d, LAMBDA e : e.k # k)
RECURSIVE DictUpdateFrom(_, _, _)
DictUpdateFrom(d, other, i) ==
    IF i > Len(other) THEN d
    ELSE DictUpdateFrom(DictSet(d, other[i].k, other[i].v), other, i + 1)
\* d.update(other)
DictUpdate(d, other) == DictUpdateFrom(d, other, 1)

(***************************************************************************)
(* Text.  A text is a sequence of tokens; an integer is written as its     *)
(* decimal digits, one token each, with a leading "-" when negative.       *)
(***************************************************************************)
Digits == <<"0", "1", "2", "3", "4", "5", "6", "7", "8", "9">>
IsDigit(c) == \E d \in 1..10 : Digits[d] = c
DigitVal(c) == (CHOOSE d \in 1..10 : Digits[d] = c) - 1
RECURSIVE NatStr(_)
NatStr(n) == IF n < 10 THEN <<Digits[n + 1]>>
             ELSE NatStr(n \div 10) \o <<Digits[(n % 10) + 1]>>
\* str(n) for an int
IntStr(n) == IF n < 0 THEN <<"-">> \o NatStr(-n) ELSE NatStr(n)

Whitespace == {" ", "\n", "\n    "}

(***************************************************************************)
(* json.dump(obj, file, indent=4) of a dict of str keys and int values:    *)
(* "{}" for the empty dict, otherwise one member per line, indented by     *)
(* four spaces, in the dict's order.                                       *)
(***************************************************************************)
RECURSIVE dump_members(_, _)
dump_members(d, i) ==
    IF i > Len(d) THEN <<>>
    ELSE <<"\n    ", "\"", d[i].k, "\"", ":", " ">> \o IntStr(d[i].v)
         \o (IF i < Len(d) THEN <<",">> ELSE <<>>)
         \o dump_members(d, i + 1)
json_dump(d) ==
    IF d = <<>> THEN <<"{", "}">>
    ELSE <<"{">> \o dump_members(d, 1) \o <<"\n", "}">>

(***************************************************************************)
(* json.load(file): the value the text denotes, or ok = FALSE where        *)
(* json.load raises JSONDecodeError.  The grammar covers what the model's  *)
(* files hold: an object whose values are integers, or a bare integer.     *)
(***************************************************************************)
RECURSIVE skip_ws(_, _)
skip_ws(t, i) ==
    IF i <= Len(t) /\ t[i] \in Whitespace THEN skip_ws(t, i + 1) ELSE i
RECURSIVE scan_digits(_, _, _)
scan_digits(t, i, acc) ==
    IF i <= Len(t) /\ IsDigit(t[i])
    THEN scan_digits(t, i + 1, acc * 10 + DigitVal(t[i]))
    ELSE [n |-> acc, next |-> i]
parse_int(t, i) ==
    LET neg == i <= Len(t) /\ t[i] = "-"
        j == IF neg THEN i + 1 ELSE i
        r == scan_digits(t, j, 0)
    IN  [ok |-> r.next > j, n |-> IF neg THEN -r.n ELSE r.n, next |-> r.next]
parse_string(t, i) ==
    IF i + 2 <= Len(t) /\ t[i] = "\"" /\ t[i + 2] = "\""
    THEN [ok |-> TRUE, s |-> t[i + 1], next |-> i + 3]
    ELSE [ok |-> FALSE, s |-> "", next |-> i]
RECURSIVE parse_members(_, _, _)
parse_members(t, i, acc) ==
    LET k == parse_string(t, skip_ws(t, i))
        c == skip_ws(t, k.next)
        v == parse_int(t, skip_ws(t, c + 1))
        e == skip_ws(t, v.next)
        Fail == [ok |-> FALSE, dict |-> <<>>, next |-> i]
    IN  IF ~k.ok THEN Fail
        ELSE IF ~(c <= Len(t) /\ t[c] = ":") THEN Fail
        ELSE IF ~v.ok THEN Fail
        ELSE IF e <= Len(t) /\ t[e] = ","
             THEN parse_members(t, e + 1, DictSet(acc, k.s, v.n))
        ELSE IF e <= Len(t) /\ t[e] = "}"
             THEN [ok |-> TRUE, dict |-> DictSet(acc, k.s, v.n), next |-> e + 1]
        ELSE Fail
json_load(t) ==
    LET i == skip_ws(t, 1)
        isObj == i <= Len(t) /\ t[i] = "{"
        j == skip_ws(t, i + 1)
        obj == IF j <= Len(t) /\ t[j] = "}"
               THEN [ok |-> TRUE, dict |-> <<>>, next |-> j + 1]
               ELSE parse_members(t, j, <<>>)
        num == parse_int(t, i)
        val == IF isObj
               THEN [ok |-> obj.ok, kind |-> "dict", dict |-> obj.dict,
                     n |-> 0, next |-> obj.next]
               ELSE [ok |-> num.ok, kind |-> "int", dict |-> <<>>,
                     n |-> num.n, next |-> num.next]
    IN  IF val.ok /\ skip_ws(t, val.next) = Len(t) + 1
        THEN val ELSE [val EXCEPT !.ok = FALSE]

(***************************************************************************)
(* The functions of the module, as functions of the dictionary and their   *)
(* arguments.  Each gives the dictionary after the call and the exception  *)
(* that propagates to the caller ("none" when the call returns).           *)
(***************************************************************************)

\* A caller's logs argument: None, or a list of entries.
NoLogs == [given |-> FALSE, entries |-> <<>>]
LogList(es) == [given |-> TRUE, entries |-> es]
\* f"{datetime.now()}: Added {qty} of {item}"; the clock reading is one token.
log_entry(item, qty) ==
    <<"<now>", ": Added ">> \o IntStr(qty.n) \o <<" of ", item.s>>

add_item(d, item, qty, lg) ==
    IF ~isinstance_str(item) \/ ~isinstance_int(qty)
    THEN [stock |-> d, logs |-> lg, raised |-> "none"]
    ELSE [stock |-> DictSet(d, item.s, DictGet(d, item.s, 0) + qty.n),
          logs |-> IF lg.given
                   THEN LogList(Append(lg.entries, log_entry(item, qty)))
                   ELSE lg,
          raised |-> "none"]

\* Faulty variant of remove_item: reads the quantity with a default of 0
\* (stock_data.get(item, 0) - qty), so an absent item gets an entry.
remove_item_via_get(d, item, qty) ==
    IF ~hashable(item) THEN [stock |-> d, raised |-> "TypeError"]
    ELSE IF ~isinstance_str(item) THEN [stock |-> d, raised |-> "none"]
    ELSE IF ~isinstance_int(qty) THEN [stock |-> d, raised |-> "TypeError"]
    ELSE LET left == DictGet(d, item.s, 0) - qty.n
         IN  [stock |-> IF left <= 0 THEN DictDel(d, item.s)
                        ELSE DictSet(d, item.s, left),
              raised |-> "none"]

\* Faulty variant of remove_item: deletes only below zero (< 0 for <= 0).
remove_item_keep_zero(d, item, qty) ==
    IF ~hashable(item) THEN [stock |-> d, raised |-> "TypeError"]
    ELSE IF ~Contains(d, item) THEN [stock |-> d, raised |-> "none"]
    ELSE IF ~isinstance_int(qty) THEN [stock |-> d, raised |-> "TypeError"]
    ELSE LET left == Lookup(d, item.s) - qty.n
         IN  [stock |-> IF left < 0 THEN DictDel(d, item.s)
                        ELSE DictSet(d, item.s, left),
              raised |-> "none"]

remove_item(d, item, qty) ==
    IF ~hashable(item) THEN [stock |-> d, raised |-> "TypeError"]
    ELSE IF ~Contains(d, item) THEN [stock |-> d, raised |-> "none"]
    ELSE IF ~isinstance_int(qty) THEN [stock |-> d, raised |-> "TypeError"]
    ELSE LET left == Lookup(d, item.s) - qty.n
         IN  [stock |-> IF left <= 0 THEN DictDel(d, item.s)
                        ELSE DictSet(d, item.s, left),
              raised |-> "none"]

get_qty(d, item) ==
    IF ~hashable(item) THEN [value |-> 0, raised |-> "TypeError"]
    ELSE [value |-> IF Contains(d, item) THEN Lookup(d, item.s) ELSE 0,
          raised |-> "none"]

\* Faulty variant of check_low_items: qty <= threshold for qty < threshold.
check_low_items_le(d, threshold) ==
    IF d # <<>> /\ ~isinstance_int(threshold)
    THEN [names |-> <<>>, raised |-> "TypeError"]
    ELSE LET low == SelectSeq(d, LAMBDA e : e.v <= threshold.n)
         IN  [names |-> [i \in 1..Len(low) |-> low[i].k], raised |-> "none"]

check_low_items(d, threshold) ==
    IF d # <<>> /\ ~isinstance_int(threshold)
    THEN [names |-> <<>>, raised |-> "TypeError"]
    ELSE LET low == SelectSeq(d, LAMBDA e : e.v < threshold.n)
         IN  [names |-> [i \in 1..Len(low) |-> low[i].k], raised |-> "none"]

\* The file system: what each path holds.
NoFile == [exists |-> FALSE, text |-> <<>>]
FileOf(text) == [exists |-> TRUE, text |-> text]
dir_exists(path) == path # NoDirPath

\* Faulty variant of load_data: no stock_data.clear() before the update, so
\* the file's entries are merged into the dictionary.
load_data_merge(d, fs, file_path) ==
    IF ~fs[file_path].exists THEN [stock |-> <<>>, raised |-> "none"]
    ELSE LET data == json_load(fs[file_path].text)
         IN  IF ~data.ok THEN [stock |-> d, raised |-> "JSONDecodeError"]
             ELSE IF data.kind = "dict"
                  THEN [stock |-> DictUpdate(d, data.dict), raised |-> "none"]
             ELSE [stock |-> d, raised |-> "TypeError"]

\* Faulty variant of load_data: "except FileNotFoundError: pass", which keeps
\* the dictionary when the file is missing.
load_data_keep(d, fs, file_path) ==
    IF ~fs[file_path].exists THEN [stock |-> d, raised |-> "none"]
    ELSE LET data == json_load(fs[file_path].text)
         IN  IF ~data.ok THEN [stock |-> d, raised |-> "JSONDecodeError"]
             ELSE IF data.kind = "dict"
                  THEN [stock |-> DictUpdate(<<>>, data.dict), raised |-> "none"]
             ELSE [stock |-> <<>>, raised |-> "TypeError"]

load_data(d, fs, file_path) ==
    IF ~fs[file_path].exists THEN [stock |-> <<>>, raised |-> "none"]
    ELSE LET data == json_load(fs[file_path].text)
         IN  IF ~data.ok THEN [stock |-> d, raised |-> "JSONDecodeError"]
             ELSE IF data.kind = "dict"
                  THEN [stock |-> DictUpdate(<<>>, data.dict), raised |-> "none"]
             ELSE [stock |-> <<>>, raised |-> "TypeError"]

save_data(d, fs, file_path) ==
    IF ~dir_exists(file_path)
    THEN [files |-> fs, raised |-> "FileNotFoundError"]
    ELSE [files |-> [fs EXCEPT ![file_path] = FileOf(json_dump(d))],
          raised |-> "none"]

(***************************************************************************)
(* State.                                                                  *)
(*   stock_data  the module-level dictionary                               *)
(*   files       what each path of the file system holds                   *)
(*   call        the last call: the function and its arguments             *)
(*   pre         stock_data when that call began                           *)
(*   raised      the exception the call propagated, or "none"              *)
(*   ret         the value the call returned                               *)
(*   logs        the caller's logs argument after the call                 *)
(*   ledger      per name, quantities added minus quantities removed since *)
(*               the name was last absent (bookkeeping of the caller)      *)
(*   saved       per path, the dictionary the last successful save_data    *)
(*               wrote there, while nothing else has touched the file      *)
(***************************************************************************)
VARIABLES stock_data, files, call, pre, raised, ret, logs, ledger, saved

vars == <<stock_data, files, call, pre, raised, ret, logs, ledger, saved>>

StrKeys == {"apple", "banana", ""}
InBounds(d) == \A i \in DOMAIN d : -MaxDebt <= d[i].v /\ d[i].v <= MaxQty

RetNone == [kind |-> "None", n |-> 0, names |-> <<>>]
RetInt(n) == [kind |-> "int", n |-> n, names |-> <<>>]
RetList(names) == [kind |-> "list", n |-> 0, names |-> names]

Call(op) == [op |-> op, item |-> PyNone, qty |-> PyNone, threshold |-> PyNone,
             file_path |-> "", logs |-> NoLogs]
Unsaved == [valid |-> FALSE, stock |-> <<>>]

\* Module import: stock_data = {}; no inventory file has been written yet.
Init ==
    /\ stock_data = <<>>
    /\ files = [p \in Paths |-> NoFile]
    /\ call = Call("import")
    /\ pre = <<>>
    /\ raised = "none"
    /\ ret = RetNone
    /\ logs = NoLogs
    /\ ledger = [k \in StrKeys |-> 0]
    /\ saved = [p \in Paths |-> Unsaved]

\* What the spec calls a valid (name, qty) pair: a non-empty string, an integer.
ValidPair(item, qty) == isinstance_str(item) /\ item.s # "" /\ isinstance_int(qty)

AddItem(item, qty, lg) ==
    LET r == add_item(stock_data, item, qty, lg)
    IN  /\ InBounds(r.stock)
        /\ stock_data' = r.stock
        /\ call' = [Call("add_item") EXCEPT !.item = item, !.qty = qty, !.logs = lg]
        /\ pre' = stock_data
        /\ raised' = r.raised
        /\ ret' = RetNone
        /\ logs' = r.logs
        /\ ledger' = IF ValidPair(item, qty)
                     THEN [ledger EXCEPT ![item.s] =
                              IF item.s \in Keys(stock_data) THEN @ + qty.n
                              ELSE qty.n]
                     ELSE ledger
        /\ UNCHANGED <<files, saved>>

RemoveItem(item, qty) ==
    LET r == remove_item(stock_data, item, qty)
    IN  /\ InBounds(r.stock)
        /\ stock_data' = r.stock
        /\ call' = [Call("remove_item") EXCEPT !.item = item, !.qty = qty]
        /\ pre' = stock_data
        /\ raised' = r.raised
        /\ ret' = RetNone
        /\ logs' = NoLogs
        /\ ledger' = IF ValidPair(item, qty) /\ item.s \in Keys(stock_data)
                     THEN [ledger EXCEPT ![item.s] =
                              IF @ - qty.n <= 0 THEN 0 ELSE @ - qty.n]
                     ELSE ledger
        /\ UNCHANGED <<files, saved>>

GetQty(item) ==
    LET r == get_qty(stock_data, item)
    IN  /\ call' = [Call("get_qty") EXCEPT !.item = item]
        /\ pre' = stock_data
        /\ raised' = r.raised
        /\ ret' = IF r.raised = "none" THEN RetInt(r.value) ELSE RetNone
        /\ logs' = NoLogs
        /\ UNCHANGED <<stock_data, files, ledger, saved>>

CheckLowItems(threshold) ==
    LET r == check_low_items(stock_data, threshold)
    IN  /\ call' = [Call("check_low_items") EXCEPT !.threshold = threshold]
        /\ pre' = stock_data
        /\ raised' = r.raised
        /\ ret' = IF r.raised = "none" THEN RetList(r.names) ELSE RetNone
        /\ logs' = NoLogs
        /\ UNCHANGED <<stock_data, files, ledger, saved>>

LoadData(file_path) ==
    LET r == load_data(stock_data, files, file_path)
    IN  /\ InBounds(r.stock)
        /\ stock_data' = r.stock
        /\ call' = [Call("load_data") EXCEPT !.file_path = file_path]
        /\ pre' = stock_data
        /\ raised' = r.raised
        /\ ret' = RetNone
        /\ logs' = NoLogs
        /\ ledger' = [k \in StrKeys |-> DictGet(r.stock, k, 0)]
        /\ UNCHANGED <<files, saved>>

SaveData(file_path) ==
    LET r == save_data(stock_data, files, file_path)
    IN  /\ files' = r.files
        /\ call' = [Call("save_data") EXCEPT !.file_path = file_path]
        /\ pre' = stock_data
        /\ raised' = r.raised
        /\ ret' = RetNone
        /\ logs' = NoLogs
        /\ saved' = IF r.raised = "none"
                    THEN [saved EXCEPT ![file_path] =
                             [valid |-> TRUE, stock |-> stock_data]]
                    ELSE saved
        /\ UNCHANGED <<stock_data, ledger>>

\* Another program writes or deletes the inventory file between two calls.
ExternalWrite(file_path, text) ==
    /\ dir_exists(file_path)
    /\ files' = [files EXCEPT ![file_path] = FileOf(text)]
    /\ saved' = [saved EXCEPT ![file_path] = Unsaved]
    /\ call' = [Call("external_write") EXCEPT !.file_path = file_path]
    /\ pre' = stock_data
    /\ raised' = "none"
    /\ ret' = RetNone
    /\ logs' = NoLogs
    /\ UNCHANGED <<stock_data, ledger>>

ExternalDelete(file_path) ==
    /\ files[file_path].exists
    /\ files' = [files EXCEPT ![file_path] = NoFile]
    /\ saved' = [saved EXCEPT ![file_path] = Unsaved]
    /\ call' = [Call("external_delete") EXCEPT !.file_path = file_path]
    /\ pre' = stock_data
    /\ raised' = "none"
    /\ ret' = RetNone
    /\ logs' = NoLogs
    /\ UNCHANGED <<stock_data, ledger>>

(***************************************************************************)
(* Spec: the in-memory functions on the names "apple" and "banana", with   *)
(* arguments of every kind: a non-str name, an unhashable name, a non-int  *)
(* quantity or threshold, logs given or not.                               *)
(***************************************************************************)
QtyInts == (-MaxDebt)..MaxQty
ItemArgs == {PyStr("apple"), PyStr("banana"), PyInt(7), PyList}
QtyArgs == {PyInt(n) : n \in QtyInts} \cup {PyStr("two")}
LogArgs == {NoLogs, LogList(<<>>), LogList(<<log_entry(PyStr("pear"), PyInt(4))>>)}
ThresholdArgs == {PyInt(n) : n \in QtyInts \cup {DefaultThreshold}}
                 \cup {PyStr("five")}

NextOver(items) ==
    \/ \E item \in items, qty \in QtyArgs, lg \in LogArgs : AddItem(item, qty, lg)
    \/ \E item \in items, qty \in QtyArgs : RemoveItem(item, qty)
    \/ \E item \in items : GetQty(item)
    \/ \E threshold \in ThresholdArgs : CheckLowItems(threshold)

Next == NextOver(ItemArgs)

Spec == Init /\ [][Next]_vars

(***************************************************************************)
(* SpecNames: the same functions on the shapes a name can take: a name,    *)
(* the empty string, a non-str value, an unhashable value.                 *)
(***************************************************************************)
NameArgs == {PyStr("apple"), PyStr(""), PyInt(7), PyList}

NextNames == NextOver(NameArgs)

SpecNames == Init /\ [][NextNames]_vars

(***************************************************************************)
(* SpecIO: add_item and remove_item together with load_data, save_data and *)
(* the inventory file.  Names are "apple" and "banana"; quantities are     *)
(* integers.                                                               *)
(***************************************************************************)
IOItemArgs == {PyStr("apple"), PyStr("banana")}
IOAddArgs == {PyInt(-1), PyInt(1)}
IORemoveArgs == {PyInt(1)}
\* File contents another program may leave: a truncated object, a bare number.
ExternalTexts == {<<"{", "\n    ", "\"", "apple", "\"", ":">>, <<"7">>}

NextIO ==
    \/ \E item \in IOItemArgs, qty \in IOAddArgs : AddItem(item, qty, NoLogs)
    \/ \E item \in IOItemArgs, qty \in IORemoveArgs : RemoveItem(item, qty)
    \/ \E file_path \in Paths : LoadData(file_path)
    \/ \E file_path \in Paths : SaveData(file_path)
    \/ \E text \in ExternalTexts : ExternalWrite(DefaultPath, text)
    \/ ExternalDelete(DefaultPath)

SpecIO == Init /\ [][NextIO]_vars

(***************************************************************************)
(* Properties.                                                             *)
(***************************************************************************)
\* The entries of d other than the one of key k.
Others(d, k) == {e \in Entries(d) : e.k # k}
InvalidJson(file) == file.exists /\ ~json_load(file.text).ok

\* C1: in every reachable state every key of the Stock Map has a strictly
\* positive quantity.
C1_AllQuantitiesPositive == \A e \in Entries(stock_data) : e.v > 0

\* C2: load_data on a file whose content is not valid JSON leaves the Stock
\* Map empty and does not raise, whatever the map held before.
C2_LoadInvalidJsonResets ==
    (call.op = "load_data" /\ InvalidJson(files[call.file_path]))
        => (stock_data = <<>> /\ raised = "none")

\* C3: the only call that can end in an exception propagated to the caller
\* is save_data.
C3_OnlySaveRaises == raised # "none" => call.op = "save_data"

\* C4: add_item whose name is not a non-empty string or whose qty is not an
\* integer changes neither the Stock Map nor the caller's logs and does not
\* raise.
C4_InvalidAddIsNoOp ==
    (call.op = "add_item" /\ ~ValidPair(call.item, call.qty))
        => (stock_data = pre /\ logs = call.logs /\ raised = "none")

\* C5: after any sequence of valid add_item and remove_item calls, get_qty of
\* a name is its running total (added minus removed since the name was last
\* absent), and the name is absent whenever that total is <= 0.
C5_QuantityIsRunningTotal ==
    \A k \in StrKeys :
        /\ get_qty(stock_data, PyStr(k)).value = ledger[k]
        /\ ledger[k] <= 0 => k \notin Keys(stock_data)

\* C6: remove_item on a name that is not a key of the Stock Map leaves the
\* whole map as it was (no entry created, none altered) and does not raise.
C6_RemoveAbsentIsNoOp ==
    (call.op = "remove_item" /\ hashable(call.item) /\ ~Contains(pre, call.item))
        => (stock_data = pre /\ raised = "none")
C6_Witness ==
    /\ call.op = "remove_item"
    /\ isinstance_str(call.item) /\ ~Contains(pre, call.item)
    /\ isinstance_int(call.qty) /\ call.qty.n < 0
    /\ pre # <<>>
    /\ stock_data = pre

\* C7: a load_data of a file that a successful save_data wrote and nothing
\* has modified since makes the Stock Map exactly the mapping of save time,
\* whatever add_item and remove_item did to the map in between.
C7_SaveLoadRoundTrip ==
    (call.op = "load_data" /\ saved[call.file_path].valid)
        => /\ raised = "none"
           /\ Entries(stock_data) = Entries(saved[call.file_path].stock)
           /\ Len(stock_data) = Len(saved[call.file_path].stock)
C7_Witness ==
    /\ call.op = "load_data"
    /\ saved[call.file_path].valid
    /\ saved[call.file_path].stock # <<>>
    /\ Keys(pre) \ Keys(saved[call.file_path].stock) # {}
    /\ \E e \in Entries(saved[call.file_path].stock) :
          e.k \in Keys(pre) /\ Lookup(pre, e.k) # e.v
    /\ stock_data = saved[call.file_path].stock

\* C8: check_low_items(threshold), for an integer threshold, returns exactly
\* the keys of the Stock Map whose quantity is < threshold, each once, never
\* a name that is not a key, and leaves the map unchanged.
C8_CheckLowItemsExact ==
    (call.op = "check_low_items" /\ isinstance_int(call.threshold))
        => /\ raised = "none"
           /\ ret.kind = "list"
           /\ {ret.names[i] : i \in DOMAIN ret.names}
                 = {e.k : e \in {x \in Entries(pre) : x.v < call.threshold.n}}
           /\ Len(ret.names) = Cardinality({ret.names[i] : i \in DOMAIN ret.names})
           /\ stock_data = pre
C8_Witness ==
    /\ call.op = "check_low_items" /\ isinstance_int(call.threshold)
    /\ ret.names # <<>>
    /\ Len(ret.names) < Len(pre)
    /\ \E e \in Entries(pre) : e.v = call.threshold.n

\* C9: load_data on a path where no file exists leaves the Stock Map empty
\* and does not raise, whatever the map held before.
C9_LoadMissingFileResets ==
    (call.op = "load_data" /\ ~files[call.file_path].exists)
        => (stock_data = <<>> /\ raised = "none")
C9_Witness ==
    /\ call.op = "load_data"
    /\ ~files[call.file_path].exists
    /\ Len(pre) = 2
    /\ stock_data = <<>>

\* C10: remove_item(name, qty) on a present name of quantity q leaves name
\* mapped to q - qty when q - qty > 0 and deletes the entry when
\* q - qty <= 0; every other entry is unchanged.
C10_RemovePresent ==
    (call.op = "remove_item" /\ Contains(pre, call.item) /\ isinstance_int(call.qty))
        => LET k == call.item.s
               left == Lookup(pre, k) - call.qty.n
           IN  /\ raised = "none"
               /\ left > 0 => (k \in Keys(stock_data) /\ Lookup(stock_data, k) = left)
               /\ left <= 0 => k \notin Keys(stock_data)
               /\ Others(stock_data, k) = Others(pre, k)
               /\ Len(stock_data) = Cardinality(Keys(stock_data))
C10_Witness ==
    /\ call.op = "remove_item" /\ Contains(pre, call.item)
    /\ isinstance_int(call.qty)
    /\ Lookup(pre, call.item.s) - call.qty.n = 0
    /\ Others(pre, call.item.s) # {}
    /\ call.item.s \notin Keys(stock_data)

====
